---- MODULE Spec2Model ----
(***************************************************************************)
(* Forlenza Industrial Control System (src/main.rs).                       *)
(*                                                                         *)
(* Two threads share one SensorData record behind a Mutex:                 *)
(*   - the simulator thread spawned by start_sensor_simulation, which      *)
(*     sleeps, takes the lock, perturbs the record and releases the lock;  *)
(*   - the UI thread, whose update() runs once per frame: the three button *)
(*     handlers in source order (Run Diagnostic, Emergency Shutdown, Reset *)
(*     System) and then the display read of the record.                    *)
(* diagnostic_running, diagnostic_log, emergency_shutdown and              *)
(* connection_status are fields of the application struct and are touched  *)
(* by the UI thread alone.                                                 *)
(*                                                                         *)
(* Granularity: a thread's steps are cut at every lock operation and at    *)
(* every loop iteration that writes the motors of the shared record; code  *)
(* that touches only UI-thread fields between two such points is one step. *)
(*                                                                         *)
(* Numbers: f32 sensor values are kept in hundredths (23.5 is 2350); the   *)
(* 64-bit seed of mod rand is kept as eight base-256 limbs, least          *)
(* significant first, so that wrapping_mul / wrapping_add are exact.       *)
(* last_update (an Instant) is kept as the number of ticks applied.        *)
(***************************************************************************)
EXTENDS Integers, Sequences, FiniteSets, TLC

VARIABLES
  system_compatible,   \* ForlenzaControlApp.system_compatible
  f32_from,            \* which conversion u64 -> f32 the build supplies for rand::random
  sensor_data,         \* the SensorData record inside Arc<Mutex<..>>
  lock,                \* holder of the Mutex: "none", "sim" or "ui"
  SEED,                \* rand::SEED, eight base-256 limbs
  diagnostic_running,  \* ForlenzaControlApp.diagnostic_running
  diagnostic_log,      \* ForlenzaControlApp.diagnostic_log
  emergency_shutdown,  \* ForlenzaControlApp.emergency_shutdown (the mode flag)
  connection_status,   \* ForlenzaControlApp.connection_status
  settle,              \* detached threads spawned by run_diagnostic: sleeping / done
  pc_sim,              \* position of the simulator thread
  sim_i,               \* its index in the motor loop
  pc_ui,               \* position of the UI thread inside update()
  ui_i,                \* its index in the motor loop of a handler
  view,                \* what the last display read rendered
  event                \* what the buttons of the current frame did

vars == <<system_compatible, f32_from, sensor_data, lock, SEED, diagnostic_running,
          diagnostic_log, emergency_shutdown, connection_status, settle,
          pc_sim, sim_i, pc_ui, ui_i, view, event>>

app_vars == <<diagnostic_running, diagnostic_log, emergency_shutdown,
              connection_status, settle>>

(***************************************************************************)
(* Bounds                                                                  *)
(***************************************************************************)
\* The simulator loop is endless; the model lets it start this many ticks.
MaxTicks == 2

(***************************************************************************)
(* Program constants                                                       *)
(***************************************************************************)
TempMin == 2000
TempMax == 3000
PressureMin == 9500
PressureMax == 10500
TempSpread == 20
PressureSpread == 50
Half == 50
SpeedBase == 1750
SpeedStep == 50
SpeedJitter == 100
LcgMul == 1103515245
LcgInc == 12345
SeedInit == 1
LimbBase == 256
SeedLimbs == 8
U16Limbs == 2
WordLimbs == 4
Hundred == 100

DefaultTemperatures == <<2350, 2410, 2280, 2500>>
DefaultPressures == <<10130, 9870, 10210>>
DefaultMotorSpeeds == <<1750, 1800, 0, 2200>>
DefaultMotorStates == <<TRUE, TRUE, FALSE, TRUE>>

\* SensorData::default
SensorDataDefault ==
  [ temperatures      |-> DefaultTemperatures,
    pressures         |-> DefaultPressures,
    motor_speeds      |-> DefaultMotorSpeeds,
    motor_states      |-> DefaultMotorStates,
    safety_interlocks |-> TRUE,
    last_update       |-> 0 ]

StatusConnected == "Connected to Legacy PLCs"
StatusIncompatible == "System Incompatible"
StatusShutdown == "EMERGENCY SHUTDOWN ACTIVE"

\* The eight lines run_diagnostic pushes, in order.
DiagnosticLines ==
  << "=== FORLENZA INDUSTRIAL DIAGNOSTIC ===",
     "System ID: FIS-CTRL-7001",
     "Initializing legacy hardware interfaces...",
     "Checking Windows 7 compatibility... ok",
     "Loading legacy PLC drivers... ok",
     "Connecting to industrial network... ok",
     "Verifying safety interlocks... ok",
     "Diagnostic Complete - All Systems Operational" >>

\* The operational mode is the emergency_shutdown flag.
Mode == IF emergency_shutdown THEN "EmergencyShutdown" ELSE "Normal"

(***************************************************************************)
(* mod rand: a linear congruential generator on a 64-bit seed              *)
(***************************************************************************)
RECURSIVE Pow(_, _)
Pow(b, e) == IF e = 0 THEN 1 ELSE b * Pow(b, e - 1)

\* limb k (0-based) of a number below 2^32, which has WordLimbs limbs
Limb(n, k) == IF k >= WordLimbs THEN 0 ELSE (n \div Pow(LimbBase, k)) % LimbBase

ToLimbs(n) == [k \in 1..SeedLimbs |-> Limb(n, k - 1)]

RECURSIVE ColumnSum(_, _, _)
\* sum over j = 0..k of s[k-j] * limb j of the multiplier (0-based k)
ColumnSum(s, k, j) ==
  IF j > k THEN 0
  ELSE s[k - j + 1] * Limb(LcgMul, j) + ColumnSum(s, k, j + 1)

\* The one element of a singleton set.  Binding a value through a set makes
\* TLC compute it once, also where it evaluates ENABLED for the fairness
\* conditions and keeps no operator argument cached.
The(S) == CHOOSE v \in S : TRUE

RECURSIVE Propagate(_, _, _)
\* carry propagation; the carry out of the top limb is dropped (wrapping)
Propagate(cols, k, carry) ==
  IF k > SeedLimbs THEN <<>>
  ELSE The({ <<t % LimbBase>> \o Propagate(cols, k + 1, t \div LimbBase) :
               t \in {cols[k] + carry} })

\* prev.wrapping_mul(1103515245).wrapping_add(12345)
LcgNext(prev) ==
  Propagate([k \in 1..SeedLimbs |-> ColumnSum(prev, k - 1, 0) + Limb(LcgInc, k - 1)], 1, 0)

\* the low 16 bits of a seed: the value a u16 takes from it
AsU16(s) == s[1] + LimbBase * s[U16Limbs]

\* TRUE iff the seed, as a number, is below LimbBase
IsSmall(s) == \A k \in 2..SeedLimbs : s[k] = 0

\* The f32 obtained from a seed, in hundredths.  f32 has no From<u64>, so the
\* conversion is whatever the build supplies: "cast" is the numeric value of
\* the seed (saturated at LimbBase, far beyond what the clamps let through),
\* "unit" scales the seed to [0, 1).
AsF32(conv, s) ==
  IF conv = "cast"
  THEN (IF IsSmall(s) THEN s[1] ELSE LimbBase) * Hundred
  ELSE (s[SeedLimbs] * Hundred) \div LimbBase

\* a clamp that lets every value through
ClampNothing(x, lo, hi) == x

\* f32::clamp
Clamp(x, lo, hi) == IF x < lo THEN lo ELSE IF x > hi THEN hi ELSE x

\* *temp += (random::<f32>() - 0.5) * 0.2; *temp = temp.clamp(20.0, 30.0)
StepTemperature(t, r) == Clamp(t + ((r - Half) * TempSpread) \div Hundred, TempMin, TempMax)

\* *pressure += (random::<f32>() - 0.5) * 0.5; *pressure = pressure.clamp(95.0, 105.0)
StepPressure(p, r) ==
  Clamp(p + ((r - Half) * PressureSpread) \div Hundred, PressureMin, PressureMax)

RECURSIVE Draws(_, _)
\* the seeds after 1, 2, ..., n further calls of random()
Draws(s, n) ==
  IF n = 0 THEN <<>>
  ELSE The({ <<x>> \o Draws(x, n - 1) : x \in {LcgNext(s)} })

\* a speed whose random part is not reduced modulo 100
TickSpeedUnreduced(i, r) == (SpeedBase + i * SpeedStep + r) % Pow(2, 16)

\* (1750 + i * 50 + (random::<u16>() % 100)) as u16, i zero-based
TickSpeed(i, r) == (SpeedBase + i * SpeedStep + (r % SpeedJitter)) % Pow(2, 16)

\* a tick that writes the speed of every motor
TickWritesAll(running) == TRUE

\* the simulator writes the speed of a motor only if it is running
TickWrites(running) == running

\* 1750 + (i * 50) as u16, i zero-based
ResetSpeed(i) == SpeedBase + ((i * SpeedStep) % Pow(2, 16))

(***************************************************************************)
(* The Mutex                                                               *)
(*                                                                         *)
(* lock() returns Err only for a poisoned mutex, that is after a thread    *)
(* panicked inside a lock scope.  No lock scope of the program can panic   *)
(* (the zips end with the shorter vector, the speed arithmetic stays far   *)
(* below the u16 range), so every `if let Ok(..) = ..lock()` takes its     *)
(* body and the model has no skipped branch.                               *)
(***************************************************************************)
\* a lock() that never waits
LockNeverWaits == TRUE

\* lock() blocks until no thread holds the mutex
LockFree == lock = "none"

Acquire(who) == LockFree /\ lock' = who

\* a guard that is leaked instead of dropped: the mutex stays held
ReleaseKeepsHolding(who) == lock = who /\ lock' = lock

Release(who) == lock = who /\ lock' = "none"

(***************************************************************************)
(* Construction (ForlenzaControlApp::default)                              *)
(***************************************************************************)
Init ==
  /\ system_compatible \in BOOLEAN
  /\ f32_from \in {"cast", "unit"}
  /\ sensor_data = SensorDataDefault
  /\ lock = "none"
  /\ SEED = ToLimbs(SeedInit)
  /\ diagnostic_running = FALSE
  /\ diagnostic_log = <<>>
  /\ emergency_shutdown = FALSE
  /\ connection_status = (IF system_compatible THEN StatusConnected ELSE StatusIncompatible)
  /\ settle = [sleeping |-> 0, done |-> 0]
  /\ pc_sim = (IF system_compatible THEN "sleep" ELSE "off")
  /\ sim_i = 0
  /\ pc_ui = "frame"
  /\ ui_i = 0
  /\ view = SensorDataDefault
  /\ event = "none"

(***************************************************************************)
(* The simulator thread (start_sensor_simulation)                          *)
(***************************************************************************)
\* thread::sleep(1000 ms) elapses
SimWake ==
  /\ pc_sim = "sleep"
  /\ sensor_data.last_update < MaxTicks
  /\ pc_sim' = "lock"
  /\ UNCHANGED <<system_compatible, f32_from, sensor_data, lock, SEED, app_vars,
                 sim_i, pc_ui, ui_i, view, event>>

\* sensor_data.lock()
SimLock ==
  /\ pc_sim = "lock"
  /\ Acquire("sim")
  /\ pc_sim' = "temps"
  /\ UNCHANGED <<system_compatible, f32_from, sensor_data, SEED, app_vars,
                 sim_i, pc_ui, ui_i, view, event>>

\* for temp in &mut data.temperatures
SimTemperatures ==
  /\ pc_sim = "temps"
  /\ \E n \in {Len(sensor_data.temperatures)} : \E d \in {Draws(SEED, n)} :
         /\ sensor_data' = [sensor_data EXCEPT !.temperatures =
                 [k \in 1..n |-> StepTemperature(sensor_data.temperatures[k],
                                                 AsF32(f32_from, d[k]))]]
         /\ SEED' = d[n]
  /\ pc_sim' = "pressures"
  /\ UNCHANGED <<system_compatible, f32_from, lock, app_vars,
                 sim_i, pc_ui, ui_i, view, event>>

\* for pressure in &mut data.pressures
SimPressures ==
  /\ pc_sim = "pressures"
  /\ \E n \in {Len(sensor_data.pressures)} : \E d \in {Draws(SEED, n)} :
         /\ sensor_data' = [sensor_data EXCEPT !.pressures =
                 [k \in 1..n |-> StepPressure(sensor_data.pressures[k],
                                              AsF32(f32_from, d[k]))]]
         /\ SEED' = d[n]
  /\ pc_sim' = "motors"
  /\ sim_i' = 1
  /\ UNCHANGED <<system_compatible, f32_from, lock, app_vars,
                 pc_ui, ui_i, view, event>>

\* the zip of motor_speeds and motor_states ends with the shorter one
MotorCount == IF Len(sensor_data.motor_speeds) < Len(sensor_data.motor_states)
              THEN Len(sensor_data.motor_speeds) ELSE Len(sensor_data.motor_states)

\* one iteration of the motor loop of the tick
SimMotor ==
  /\ pc_sim = "motors"
  /\ sim_i <= MotorCount
  /\ IF TickWrites(sensor_data.motor_states[sim_i])
     THEN \E x \in {LcgNext(SEED)} :
              /\ sensor_data' = [sensor_data EXCEPT
                     !.motor_speeds[sim_i] = TickSpeed(sim_i - 1, AsU16(x))]
              /\ SEED' = x
     ELSE UNCHANGED <<sensor_data, SEED>>
  /\ sim_i' = sim_i + 1
  /\ UNCHANGED <<system_compatible, f32_from, lock, app_vars,
                 pc_sim, pc_ui, ui_i, view, event>>

\* data.last_update = Instant::now()
SimStamp ==
  /\ pc_sim = "motors"
  /\ sim_i > MotorCount
  /\ sensor_data' = [sensor_data EXCEPT !.last_update = @ + 1]
  /\ pc_sim' = "unlock"
  /\ UNCHANGED <<system_compatible, f32_from, lock, SEED, app_vars,
                 sim_i, pc_ui, ui_i, view, event>>

\* a simulator whose thread ends after its first tick
SimUnlockAndExit ==
  /\ pc_sim = "unlock"
  /\ lock = "sim"
  /\ lock' = "none"
  /\ pc_sim' = "off"
  /\ UNCHANGED <<system_compatible, f32_from, sensor_data, SEED, app_vars,
                 sim_i, pc_ui, ui_i, view, event>>

\* the guard is dropped at the end of the if-let block; back to sleep
SimUnlock ==
  /\ pc_sim = "unlock"
  /\ Release("sim")
  /\ pc_sim' = "sleep"
  /\ UNCHANGED <<system_compatible, f32_from, sensor_data, SEED, app_vars,
                 sim_i, pc_ui, ui_i, view, event>>

SimNext ==
  \/ SimWake
  \/ SimLock
  \/ SimTemperatures
  \/ SimPressures
  \/ SimMotor
  \/ SimStamp
  \/ SimUnlock

(***************************************************************************)
(* The detached thread of run_diagnostic: it sleeps 3000 ms and ends,      *)
(* without writing anything back.                                          *)
(***************************************************************************)
SettleElapse ==
  /\ settle.sleeping > 0
  /\ settle' = [sleeping |-> settle.sleeping - 1, done |-> settle.done + 1]
  /\ UNCHANGED <<system_compatible, f32_from, sensor_data, lock, SEED,
                 diagnostic_running, diagnostic_log, emergency_shutdown,
                 connection_status, pc_sim, sim_i, pc_ui, ui_i, view, event>>

(***************************************************************************)
(* The UI thread: one pass of update() per frame                           *)
(***************************************************************************)
\* an update() without the early return of the incompatible branch
FrameNeverReturnsEarly == FALSE

\* if !self.system_compatible { ...; return; }
FrameReturnsEarly == ~system_compatible

\* the incompatible frame: the error panel is shown and update() returns
FrameIncompatible ==
  /\ pc_ui = "frame"
  /\ FrameReturnsEarly
  /\ event' = "incompatible"
  /\ UNCHANGED <<system_compatible, f32_from, sensor_data, lock, SEED, app_vars,
                 pc_sim, sim_i, pc_ui, ui_i, view>>

\* the header panel is drawn; the buttons follow
FrameStart ==
  /\ pc_ui = "frame"
  /\ ~FrameReturnsEarly
  /\ pc_ui' = "btn_diag"
  /\ event' = "none"
  /\ UNCHANGED <<system_compatible, f32_from, sensor_data, lock, SEED, app_vars,
                 pc_sim, sim_i, ui_i, view>>

\* a run_diagnostic that does not look at diagnostic_running
RunDiagnosticReturnsOnlyIncompatible == ~system_compatible

\* if !self.system_compatible || self.diagnostic_running { return; }
RunDiagnosticReturns == ~system_compatible \/ diagnostic_running

\* diagnostic_log.clear() followed by the eight pushes
DiagnosticLogAfter(log) == DiagnosticLines

\* run_diagnostic()
RunDiagnostic ==
  IF RunDiagnosticReturns
  THEN /\ event' = "diag_ignored"
       /\ UNCHANGED <<diagnostic_running, diagnostic_log, settle>>
  ELSE /\ diagnostic_running' = TRUE
       /\ diagnostic_log' = DiagnosticLogAfter(diagnostic_log)
       /\ settle' = [settle EXCEPT !.sleeping = @ + 1]
       /\ event' = "diag"

\* a diagnostic that stamps the shared record when it is accepted
BtnDiagnosticStampsRecord ==
  /\ pc_ui = "btn_diag"
  /\ \E clicked \in BOOLEAN :
       IF clicked
       THEN /\ RunDiagnostic
            /\ sensor_data' = IF RunDiagnosticReturns THEN sensor_data
                              ELSE [sensor_data EXCEPT !.last_update = @ + 1]
       ELSE UNCHANGED <<diagnostic_running, diagnostic_log, settle, event, sensor_data>>
  /\ pc_ui' = "btn_es"
  /\ UNCHANGED <<system_compatible, f32_from, lock, SEED,
                 emergency_shutdown, connection_status, pc_sim, sim_i, ui_i, view>>

\* if ui.button("Run Diagnostic").clicked() { self.run_diagnostic(); }
BtnDiagnostic ==
  /\ pc_ui = "btn_diag"
  /\ \E clicked \in BOOLEAN :
       IF clicked THEN RunDiagnostic
       ELSE UNCHANGED <<diagnostic_running, diagnostic_log, settle, event>>
  /\ pc_ui' = "btn_es"
  /\ UNCHANGED <<system_compatible, f32_from, sensor_data, lock, SEED,
                 emergency_shutdown, connection_status, pc_sim, sim_i, ui_i, view>>

\* if ui.button("Emergency Shutdown").clicked() { self.emergency_shutdown(); }
BtnShutdown ==
  /\ pc_ui = "btn_es"
  /\ \E clicked \in BOOLEAN :
       IF clicked THEN pc_ui' = "es_lock" /\ event' = "shutdown"
       ELSE pc_ui' = "btn_reset" /\ UNCHANGED event
  /\ UNCHANGED <<system_compatible, f32_from, sensor_data, lock, SEED, app_vars,
                 pc_sim, sim_i, ui_i, view>>

\* emergency_shutdown(): self.sensor_data.lock()
ShutdownLock ==
  /\ pc_ui = "es_lock"
  /\ Acquire("ui")
  /\ pc_ui' = "es_motors"
  /\ ui_i' = 1
  /\ UNCHANGED <<system_compatible, f32_from, sensor_data, SEED, app_vars,
                 pc_sim, sim_i, view, event>>

\* a shutdown that stops the motor and forgets its speed
ShutdownSpeedKept(speed) == speed

\* *speed = 0
ShutdownSpeed(speed) == 0

\* *state = false
ShutdownState(state) == FALSE

\* one iteration of the loop over the motors
ShutdownMotor ==
  /\ pc_ui = "es_motors"
  /\ ui_i <= MotorCount
  /\ sensor_data' = [sensor_data EXCEPT
        !.motor_speeds[ui_i] = ShutdownSpeed(@),
        !.motor_states[ui_i] = ShutdownState(@)]
  /\ ui_i' = ui_i + 1
  /\ UNCHANGED <<system_compatible, f32_from, lock, SEED, app_vars,
                 pc_sim, sim_i, pc_ui, view, event>>

\* a shutdown that switches the interlocks off
ShutdownInterlockCleared(cur) == FALSE

\* a shutdown that flips the interlock flag instead of forcing it
ShutdownInterlockFlipped(cur) == ~cur

\* data.safety_interlocks = true
ShutdownInterlockValue(cur) == TRUE

ShutdownInterlocks ==
  /\ pc_ui = "es_motors"
  /\ ui_i > MotorCount
  /\ sensor_data' = [sensor_data EXCEPT !.safety_interlocks = ShutdownInterlockValue(@)]
  /\ pc_ui' = "es_unlock"
  /\ UNCHANGED <<system_compatible, f32_from, lock, SEED, app_vars,
                 pc_sim, sim_i, ui_i, view, event>>

\* the guard is dropped at the end of the if-let block
ShutdownUnlock ==
  /\ pc_ui = "es_unlock"
  /\ Release("ui")
  /\ pc_ui' = "es_flag"
  /\ UNCHANGED <<system_compatible, f32_from, sensor_data, SEED, app_vars,
                 pc_sim, sim_i, ui_i, view, event>>

\* self.emergency_shutdown = true; self.connection_status = "EMERGENCY SHUTDOWN ACTIVE"
ShutdownFlag ==
  /\ pc_ui = "es_flag"
  /\ emergency_shutdown' = TRUE
  /\ connection_status' = StatusShutdown
  /\ pc_ui' = "btn_reset"
  /\ UNCHANGED <<system_compatible, f32_from, sensor_data, lock, SEED,
                 diagnostic_running, diagnostic_log, settle,
                 pc_sim, sim_i, ui_i, view, event>>

\* a Reset button that does not look at the mode
ResetAlways(clicked) == clicked

\* ui.button("Reset System").clicked() && self.emergency_shutdown
ResetAccepted(clicked) == clicked /\ emergency_shutdown

BtnReset ==
  /\ pc_ui = "btn_reset"
  /\ \E clicked \in BOOLEAN :
       IF ResetAccepted(clicked) THEN pc_ui' = "rs_lock" /\ event' = "reset"
       ELSE /\ pc_ui' = "display"
            /\ event' = (IF clicked THEN "reset_ignored" ELSE event)
  /\ UNCHANGED <<system_compatible, f32_from, sensor_data, lock, SEED, app_vars,
                 pc_sim, sim_i, ui_i, view>>

\* Reset System: self.sensor_data.lock()
ResetLock ==
  /\ pc_ui = "rs_lock"
  /\ Acquire("ui")
  /\ pc_ui' = "rs_states"
  /\ UNCHANGED <<system_compatible, f32_from, sensor_data, SEED, app_vars,
                 pc_sim, sim_i, ui_i, view, event>>

\* data.motor_states = vec![true, true, false, true]
ResetMotorStates == DefaultMotorStates

ResetStates ==
  /\ pc_ui = "rs_states"
  /\ sensor_data' = [sensor_data EXCEPT !.motor_states = ResetMotorStates]
  /\ pc_ui' = "rs_motors"
  /\ ui_i' = 1
  /\ UNCHANGED <<system_compatible, f32_from, lock, SEED, app_vars,
                 pc_sim, sim_i, view, event>>

\* one iteration of the loop: if *state { *speed = 1750 + (i * 50) as u16 }
ResetMotor ==
  /\ pc_ui = "rs_motors"
  /\ ui_i <= MotorCount
  /\ sensor_data' = IF sensor_data.motor_states[ui_i]
                    THEN [sensor_data EXCEPT !.motor_speeds[ui_i] = ResetSpeed(ui_i - 1)]
                    ELSE sensor_data
  /\ ui_i' = ui_i + 1
  /\ UNCHANGED <<system_compatible, f32_from, lock, SEED, app_vars,
                 pc_sim, sim_i, pc_ui, view, event>>

\* the guard is dropped at the end of the if-let block
ResetUnlock ==
  /\ pc_ui = "rs_motors"
  /\ ui_i > MotorCount
  /\ Release("ui")
  /\ pc_ui' = "rs_flag"
  /\ UNCHANGED <<system_compatible, f32_from, sensor_data, SEED, app_vars,
                 pc_sim, sim_i, ui_i, view, event>>

\* self.emergency_shutdown = false; self.connection_status = "Connected to Legacy PLCs"
ResetFlag ==
  /\ pc_ui = "rs_flag"
  /\ emergency_shutdown' = FALSE
  /\ connection_status' = StatusConnected
  /\ pc_ui' = "display"
  /\ UNCHANGED <<system_compatible, f32_from, sensor_data, lock, SEED,
                 diagnostic_running, diagnostic_log, settle,
                 pc_sim, sim_i, ui_i, view, event>>

\* the sensor panel: self.sensor_data.lock()
DisplayLock ==
  /\ pc_ui = "display"
  /\ Acquire("ui")
  /\ pc_ui' = "disp_read"
  /\ UNCHANGED <<system_compatible, f32_from, sensor_data, SEED, app_vars,
                 pc_sim, sim_i, ui_i, view, event>>

\* the labels are drawn from the locked record
DisplayRead ==
  /\ pc_ui = "disp_read"
  /\ view' = sensor_data
  /\ pc_ui' = "disp_unlock"
  /\ UNCHANGED <<system_compatible, f32_from, sensor_data, lock, SEED, app_vars,
                 pc_sim, sim_i, ui_i, event>>

\* the guard is dropped; the diagnostic panel reads UI fields only; update() returns
DisplayUnlock ==
  /\ pc_ui = "disp_unlock"
  /\ Release("ui")
  /\ pc_ui' = "frame"
  /\ UNCHANGED <<system_compatible, f32_from, sensor_data, SEED, app_vars,
                 pc_sim, sim_i, ui_i, view, event>>

UINext ==
  \/ FrameIncompatible
  \/ FrameStart
  \/ BtnDiagnostic
  \/ BtnShutdown
  \/ ShutdownLock
  \/ ShutdownMotor
  \/ ShutdownInterlocks
  \/ ShutdownUnlock
  \/ ShutdownFlag
  \/ BtnReset
  \/ ResetLock
  \/ ResetStates
  \/ ResetMotor
  \/ ResetUnlock
  \/ ResetFlag
  \/ DisplayLock
  \/ DisplayRead
  \/ DisplayUnlock

Next == SimNext \/ UINext \/ SettleElapse

Spec == Init /\ [][Next]_vars

\* Fair scheduling: a thread that can run does run (the simulator's sleep
\* ends, a lock scope runs to its end, the UI draws frame after frame, the
\* settle delay elapses), and a simulator waiting in lock() gets the mutex
\* when it is free again and again (the UI releases it in every frame).
FairSpec ==
  /\ Spec
  /\ WF_vars(SimNext)
  /\ SF_vars(SimLock)
  /\ WF_vars(UINext)
  /\ WF_vars(SettleElapse)

TypeOK ==
  /\ system_compatible \in BOOLEAN
  /\ lock \in {"none", "sim", "ui"}
  /\ diagnostic_running \in BOOLEAN
  /\ emergency_shutdown \in BOOLEAN
  /\ Len(SEED) = SeedLimbs
  /\ \A k \in 1..SeedLimbs : SEED[k] \in 0..(LimbBase - 1)

(***************************************************************************)
(* Vocabulary of the properties                                            *)
(***************************************************************************)
Motors == 1..Len(sensor_data.motor_speeds)

AllStopped(d) ==
  /\ \A i \in 1..Len(d.motor_speeds) : d.motor_speeds[i] = 0
  /\ \A i \in 1..Len(d.motor_states) : d.motor_states[i] = FALSE

SimInCriticalSection == pc_sim \in {"temps", "pressures", "motors", "unlock"}

ShutdownPcs == {"es_lock", "es_motors", "es_unlock", "es_flag"}

ResetPcs == {"rs_lock", "rs_states", "rs_motors", "rs_flag"}

UIInCriticalSection ==
  pc_ui \in {"es_motors", "es_unlock", "rs_states", "rs_motors", "disp_read", "disp_unlock"}

\* some motors already zeroed by the running shutdown, others not yet
ShutdownHalfApplied == pc_ui = "es_motors" /\ 1 < ui_i /\ ui_i <= MotorCount

SpawnedSettleThreads == settle.sleeping + settle.done

(***************************************************************************)
(* C1: whenever mode == EmergencyShutdown, every motor speed is 0, every   *)
(* motor is stopped and the safety interlocks are on, in every reachable   *)
(* state, the window between Reset's update of the record and Reset's      *)
(* change of the mode flag included.                                       *)
(***************************************************************************)
C1_ShutdownModeInvariant ==
  Mode = "EmergencyShutdown" =>
    AllStopped(sensor_data) /\ sensor_data.safety_interlocks = TRUE

(***************************************************************************)
(* C2: the simulator tick and the UI thread's shutdown, reset and display  *)
(* read are never inside their critical sections at the same time; while a *)
(* shutdown is half applied the simulator is outside its critical section, *)
(* and a display read never shows a half-applied shutdown.                 *)
(***************************************************************************)
C2_MutualExclusion ==
  /\ ~(SimInCriticalSection /\ UIInCriticalSection)
  /\ ShutdownHalfApplied => ~SimInCriticalSection
  /\ view.motor_states = DefaultMotorStates \/ AllStopped(view)

\* the simulator waits for the lock while the shutdown has stopped motors 1
\* and 2 and not yet motor 4
C2_Witness ==
  /\ ShutdownHalfApplied
  /\ ui_i = 3
  /\ sensor_data.motor_states[1] = FALSE
  /\ sensor_data.motor_states[4] = TRUE
  /\ pc_sim = "lock"

(***************************************************************************)
(* C3: every temperature stays within [20.0, 30.0] and every pressure      *)
(* within [95.0, 105.0], in the record and in what the display read, after *)
(* any number of ticks interleaved with any commands.                      *)
(***************************************************************************)
C3_ClampInvariant ==
  \A d \in {sensor_data, view} :
    /\ \A k \in 1..Len(d.temperatures) :
         TempMin <= d.temperatures[k] /\ d.temperatures[k] <= TempMax
    /\ \A k \in 1..Len(d.pressures) :
         PressureMin <= d.pressures[k] /\ d.pressures[k] <= PressureMax

\* a tick has pushed a temperature and a pressure to their upper limits, the
\* clamp having cut them, with a shutdown issued in between
C3_Witness ==
  /\ sensor_data.last_update >= 1
  /\ sensor_data.temperatures[1] = TempMax
  /\ sensor_data.pressures[1] = PressureMax
  /\ emergency_shutdown

(***************************************************************************)
(* C4: EmergencyShutdown yields speeds [0,0,0,0], states all false,        *)
(* interlocks on and mode EmergencyShutdown; a Reset issued in that mode   *)
(* yields, immediately after the transition, states [true,true,false,true],*)
(* speed 1750 + 50*i for every running motor i (zero-based), 0 for the     *)
(* stopped motor, and mode Normal.                                         *)
(***************************************************************************)
C4_ShutdownThenReset ==
  [][ /\ (pc_ui = "es_flag" /\ pc_ui' = "btn_reset") =>
           (AllStopped(sensor_data) /\ sensor_data.safety_interlocks = TRUE
              /\ Mode = "EmergencyShutdown")'
      /\ (pc_ui = "rs_flag" /\ pc_ui' = "display") =>
           ( /\ sensor_data.motor_states = DefaultMotorStates
             /\ \A i \in Motors :
                  sensor_data.motor_speeds[i] =
                    (IF sensor_data.motor_states[i] THEN ResetSpeed(i - 1) ELSE 0)
             /\ Mode = "Normal" )'
    ]_vars

(***************************************************************************)
(* C5: a Reset issued while mode == Normal does not enter the reset        *)
(* handler and leaves the sensor record, the mode, the status, the         *)
(* diagnostic flag and the diagnostic log unchanged.                       *)
(***************************************************************************)
C5_ResetInNormalIsNoOp ==
  [][ (pc_ui = "btn_reset" /\ Mode = "Normal" /\ pc_ui' # pc_ui) =>
        (pc_ui' = "display" /\ UNCHANGED <<sensor_data, lock, app_vars, view>>)
    ]_vars

\* Reset was clicked in Normal mode, after the simulator had changed the record
C5_Witness ==
  /\ event = "reset_ignored"
  /\ pc_ui = "display"
  /\ Mode = "Normal"
  /\ sensor_data.last_update >= 1
  /\ sensor_data.motor_speeds # DefaultMotorSpeeds

(***************************************************************************)
(* C6: while mode is already EmergencyShutdown, an EmergencyShutdown       *)
(* changes nothing: during the whole repeated handler, ticks interleaved   *)
(* or not, the motors, the interlocks, the mode, the status, the           *)
(* diagnostic flag and the diagnostic log stay as they were.               *)
(***************************************************************************)
C6_ShutdownIdempotent ==
  [][ (Mode = "EmergencyShutdown" /\ pc_ui \in ShutdownPcs) =>
        /\ sensor_data'.motor_speeds = sensor_data.motor_speeds
        /\ sensor_data'.motor_states = sensor_data.motor_states
        /\ sensor_data'.safety_interlocks = sensor_data.safety_interlocks
        /\ UNCHANGED <<diagnostic_running, diagnostic_log, emergency_shutdown,
                       connection_status>>
    ]_vars

\* a repeated shutdown has run to its end, a tick having run since the mode
\* was set
C6_Witness ==
  /\ Mode = "EmergencyShutdown"
  /\ pc_ui = "es_flag"
  /\ sensor_data.last_update >= 1
  /\ view.last_update >= 1
  /\ AllStopped(view)

(***************************************************************************)
(* C7: the diagnostic log is always empty or exactly the one fixed         *)
(* sequence of lines, and a RunDiagnostic issued while a diagnostic is in  *)
(* progress changes neither the flag nor the log and starts no second run. *)
(***************************************************************************)
C7_SingleDiagnosticRun ==
  /\ [](diagnostic_log \in {<<>>, DiagnosticLines})
  /\ [][ (pc_ui = "btn_diag" /\ diagnostic_running) =>
           /\ UNCHANGED <<diagnostic_running, diagnostic_log>>
           /\ SpawnedSettleThreads' = SpawnedSettleThreads
       ]_vars

\* a second RunDiagnostic was ignored while the first was in progress
C7_Witness ==
  /\ event = "diag_ignored"
  /\ diagnostic_running
  /\ diagnostic_log = DiagnosticLines
  /\ settle.sleeping = 1

C9_DiagnosticCompletes ==
  (settle.done > 0 /\ settle.sleeping = 0) => diagnostic_running = FALSE

(***************************************************************************)
(* C10: a RunDiagnostic issued while mode == EmergencyShutdown is ignored: *)
(* it leaves diagnostic_in_progress and the diagnostic log unchanged.      *)
(***************************************************************************)
C10_DiagnosticOnlyInNormal ==
  [][ (pc_ui = "btn_diag" /\ Mode = "EmergencyShutdown") =>
        UNCHANGED <<diagnostic_running, diagnostic_log>>
    ]_vars

(***************************************************************************)
(* C11: in every reachable state motor_speeds and motor_states have the    *)
(* same length, and every motor whose state is false has speed 0.          *)
(***************************************************************************)
C11_StoppedMotorsAtZero ==
  /\ Len(sensor_data.motor_speeds) = Len(sensor_data.motor_states)
  /\ \A i \in Motors : sensor_data.motor_states[i] = FALSE => sensor_data.motor_speeds[i] = 0

\* after a shutdown, a reset and a tick: motor 3 is stopped at 0 between
\* running motors whose speeds the tick has rewritten
C11_Witness ==
  /\ event = "reset"
  /\ Mode = "Normal"
  /\ sensor_data.motor_states = DefaultMotorStates
  /\ sensor_data.motor_speeds[3] = 0
  /\ sensor_data.motor_speeds[1] # ResetSpeed(0)
  /\ sensor_data.last_update >= 1

(***************************************************************************)
(* C15: a simulator step writes only temperatures, pressures, last_update  *)
(* and the speeds of running motors: motor_states, safety_interlocks, the  *)
(* mode, the diagnostic flag, the diagnostic log and the speed of every    *)
(* stopped motor are left as they were.                                    *)
(***************************************************************************)
C15_TickFrame ==
  [][ (pc_sim' # pc_sim \/ sim_i' # sim_i) =>
        /\ sensor_data'.motor_states = sensor_data.motor_states
        /\ sensor_data'.safety_interlocks = sensor_data.safety_interlocks
        /\ UNCHANGED <<emergency_shutdown, connection_status, diagnostic_running,
                       diagnostic_log>>
        /\ \A i \in Motors :
             sensor_data.motor_states[i] = FALSE =>
               sensor_data'.motor_speeds[i] = sensor_data.motor_speeds[i]
    ]_vars

\* the motor loop of a tick has passed the stopped motor 3 and rewritten the
\* speed of the running motor 1
C15_Witness ==
  /\ pc_sim = "motors"
  /\ sim_i = 4
  /\ sensor_data.motor_states = DefaultMotorStates
  /\ sensor_data.motor_speeds[3] = 0
  /\ sensor_data.motor_speeds[1] # DefaultMotorSpeeds[1]

(***************************************************************************)
(* C16: when a tick has run its motor loop, every running motor i          *)
(* (zero-based) has a speed in [1750 + 50*i, 1750 + 50*i + 99], which is   *)
(* below 2^16.                                                             *)
(***************************************************************************)
C16_TickSpeedRange ==
  pc_sim = "unlock" =>
    \A i \in Motors :
      sensor_data.motor_states[i] =>
        /\ SpeedBase + SpeedStep * (i - 1) <= sensor_data.motor_speeds[i]
        /\ sensor_data.motor_speeds[i] <= SpeedBase + SpeedStep * (i - 1) + (SpeedJitter - 1)
        /\ sensor_data.motor_speeds[i] < Pow(2, 16)

\* a tick has brought motor 4 from its default 2200 into its range, with a
\* non-zero random part on motor 1
C16_Witness ==
  /\ pc_sim = "unlock"
  /\ sensor_data.motor_states = DefaultMotorStates
  /\ sensor_data.motor_speeds[4] # DefaultMotorSpeeds[4]
  /\ sensor_data.motor_speeds[1] > SpeedBase

(***************************************************************************)
(* C17: safety_interlocks is true in every reachable state, in the record  *)
(* and in what the display read.                                           *)
(***************************************************************************)
C17_InterlocksAlwaysOn ==
  /\ sensor_data.safety_interlocks = TRUE
  /\ view.safety_interlocks = TRUE

\* the display has read the record after a shutdown wrote the interlocks
C17_Witness ==
  /\ Mode = "EmergencyShutdown"
  /\ pc_ui = "disp_unlock"
  /\ AllStopped(view)
  /\ view.safety_interlocks = TRUE

\* the UI thread is at a call of lock()
UIRequestsLock == pc_ui \in {"es_lock", "rs_lock", "display"}

C13_NoDeadlock ==
  /\ (lock = "ui") <=> UIInCriticalSection
  /\ (lock = "sim") <=> SimInCriticalSection
  /\ UIRequestsLock => lock # "ui"
  /\ pc_sim = "lock" => lock # "sim"
  /\ ~(pc_sim = "lock" /\ UIRequestsLock /\ lock # "none")

\* the simulator waits in lock() while Reset holds the mutex
C13_Witness ==
  /\ pc_sim = "lock"
  /\ lock = "ui"
  /\ pc_ui = "rs_motors"
  /\ ui_i = 2

(***************************************************************************)
(* C14: RunDiagnostic, accepted or ignored, leaves the sensor record, the  *)
(* mutex and the mode as they are.                                         *)
(***************************************************************************)
C14_DiagnosticFrame ==
  [][ (pc_ui = "btn_diag" /\ pc_ui' # pc_ui) =>
        UNCHANGED <<sensor_data, lock, emergency_shutdown, connection_status>>
    ]_vars

\* a diagnostic was accepted while the simulator held the mutex
C14_Witness ==
  /\ event = "diag"
  /\ pc_ui = "btn_es"
  /\ diagnostic_running
  /\ lock = "sim"
  /\ pc_sim = "motors"

====
